---- MODULE Spec2Model ----
(***************************************************************************)
(* A model of nycpulse's train tracking:                                   *)
(*   - backend/src/gtfs/mod.rs   GtfsHandler::get_train_positions, the     *)
(*     snapshot computation over the GTFS-realtime feeds, and the          *)
(*     /api/trains handler of backend/src/main.rs;                         *)
(*   - frontend/src/subway_data.rs fetch_train_positions, the tracked      *)
(*     store TRAIN_STATES and its merge / extrapolate / read batch.        *)
(* f64 values are modelled as exact rationals [num, den] in lowest terms,  *)
(* with den = 0 for the non-finite values (0/0 is NaN).                    *)
(***************************************************************************)
EXTENDS Integers, Sequences, FiniteSets, TLC

(***************************************************************************)
(* Bounds of the model.                                                    *)
(***************************************************************************)
\* feed timestamps range over 0..MaxTime, the backend clock over 0..MaxTime+1
MaxTime == 2
\* longest stop_time_update sequence of a trip of unrestricted shape
MaxStops == 3
\* most entities in one feed message
MaxEntities == 2
\* firings of the frontend's update timer
MaxTicks == 3
\* once this many positions are collected, the remaining feeds carry no entity
MaxPositions == 2

\* station records in the answer of the directory service
MaxStations == 2

(***************************************************************************)
(* Option<T>: None is the empty sequence, Some(v) the one-element one.     *)
(***************************************************************************)
None == <<>>

Some(v) == <<v>>

Option(S) == {None} \cup {Some(v) : v \in S}

\* Option::or
OrOpt(a, b) == IF a # None THEN a ELSE b

\* Option::unwrap_or_default for String
UnwrapOrDefaultStr(o) == IF o # None THEN o[1] ELSE ""

(***************************************************************************)
(* f64 as exact rationals.                                                 *)
(***************************************************************************)
Abs(n) == IF n < 0 THEN -n ELSE n

Sign(n) == IF n < 0 THEN -1 ELSE IF n > 0 THEN 1 ELSE 0

RECURSIVE GCD(_, _)
GCD(a, b) == IF b = 0 THEN a ELSE GCD(b, a % b)

NaN == [num |-> 0, den |-> 0]

IsNaN(x) == x.den = 0 /\ x.num = 0

IsFinite(x) == x.den # 0

\* n/d for integers n and d, as an f64 division gives it: 0/0 is NaN, n/0 is +-inf
Frac(n, d) ==
    IF d = 0 THEN [num |-> Sign(n), den |-> 0]
    ELSE LET g == GCD(Abs(n), Abs(d))
         IN  [num |-> (Sign(d) * n) \div g, den |-> Abs(d) \div g]

\* `as f64` of an i64
F64(n) == [num |-> n, den |-> 1]

FAdd(x, y) ==
    IF IsNaN(x) \/ IsNaN(y) THEN NaN
    ELSE IF x.den = 0 /\ y.den = 0 THEN (IF x.num = y.num THEN x ELSE NaN)
    ELSE IF x.den = 0 THEN x
    ELSE IF y.den = 0 THEN y
    ELSE Frac(x.num * y.den + y.num * x.den, x.den * y.den)

FNeg(x) == [num |-> -x.num, den |-> x.den]

FSub(x, y) == FAdd(x, FNeg(y))

FMul(x, y) ==
    IF IsNaN(x) \/ IsNaN(y) THEN NaN
    ELSE IF x.den = 0 \/ y.den = 0
         THEN [num |-> Sign(x.num) * Sign(y.num), den |-> 0]
    ELSE Frac(x.num * y.num, x.den * y.den)

FDiv(x, y) ==
    IF IsNaN(x) \/ IsNaN(y) THEN NaN
    ELSE IF x.den = 0 /\ y.den = 0 THEN NaN
    ELSE IF x.den = 0 THEN [num |-> x.num * (IF y.num < 0 THEN -1 ELSE 1), den |-> 0]
    ELSE IF y.den = 0 THEN F64(0)
    ELSE Frac(x.num * y.den, x.den * y.num)

\* x < y on f64: false as soon as one side is NaN
FLt(x, y) ==
    IF IsNaN(x) \/ IsNaN(y) THEN FALSE
    ELSE IF x.den = 0 /\ y.den = 0 THEN x.num < y.num
    ELSE IF x.den = 0 THEN x.num < 0
    ELSE IF y.den = 0 THEN y.num > 0
    ELSE x.num * y.den < y.num * x.den

FGt(x, y) == FLt(y, x)

\* f64::min: the other operand when one is NaN
FMin(x, y) ==
    IF IsNaN(x) THEN y
    ELSE IF IsNaN(y) THEN x
    ELSE IF FLt(y, x) THEN y ELSE x

(***************************************************************************)
(* Reference data and the stop-location index (GtfsHandler::new).          *)
(***************************************************************************)
\* str::parse::<f64> on the coordinate strings of the reference data
ParseF64(s) ==
    CASE s = "40.70"  -> Some(Frac(4070, 100))
      [] s = "40.71"  -> Some(Frac(4071, 100))
      [] s = "-73.90" -> Some(Frac(-7390, 100))
      [] s = "-73.92" -> Some(Frac(-7392, 100))
      [] s = "40.72"  -> Some(Frac(4072, 100))
      [] s = "-73.94" -> Some(Frac(-7394, 100))
      [] OTHER        -> None

\* the station records answered by the directory service
Stations ==
    << [gtfs_stop_id |-> "L06", gtfs_latitude |-> "40.70", gtfs_longitude |-> "-73.90"],
       [gtfs_stop_id |-> "L08", gtfs_latitude |-> "40.71", gtfs_longitude |-> "-73.92"],
       [gtfs_stop_id |-> "L10", gtfs_latitude |-> "40.72", gtfs_longitude |-> "-73.94"] >>

\* the station ids, latitude strings and longitude strings the directory service
\* can answer: some parse as f64, some do not
StationIds == {"L06", "L08"}

LatStrings == {"40.70", "40.71", "north"}

LonStrings == {"-73.90", ""}

\* the answers of the directory service: up to MaxStations records, ids may repeat
StationLists ==
    UNION { [1..n -> [gtfs_stop_id : StationIds, gtfs_latitude : LatStrings,
                      gtfs_longitude : LonStrings]] : n \in 0..MaxStations }

\* HashMap::insert
MapInsert(m, k, v) == [x \in DOMAIN m \cup {k} |-> IF x = k THEN v ELSE m[x]]

\* a loop that skips a record whose coordinates do not parse
RECURSIVE LoadStationsSkipping(_, _)
LoadStationsSkipping(stations, m) ==
    IF stations = <<>> THEN Some(m)
    ELSE LET station == Head(stations)
             lat == ParseF64(station.gtfs_latitude)
             lon == ParseF64(station.gtfs_longitude)
         IN  IF lat = None \/ lon = None THEN LoadStationsSkipping(Tail(stations), m)
             ELSE LoadStationsSkipping(Tail(stations),
                    MapInsert(MapInsert(m, station.gtfs_stop_id \o "N", <<lat[1], lon[1]>>),
                              station.gtfs_stop_id \o "S", <<lat[1], lon[1]>>))

\* a loop that keeps the northbound entry of a stop id it has seen before
RECURSIVE LoadStationsKeepNorth(_, _)
LoadStationsKeepNorth(stations, m) ==
    IF stations = <<>> THEN Some(m)
    ELSE LET station == Head(stations)
             lat == ParseF64(station.gtfs_latitude)
             lon == ParseF64(station.gtfs_longitude)
             north == station.gtfs_stop_id \o "N"
         IN  IF lat = None \/ lon = None THEN None
             ELSE LoadStationsKeepNorth(Tail(stations),
                    MapInsert(IF north \in DOMAIN m THEN m
                              ELSE MapInsert(m, north, <<lat[1], lon[1]>>),
                              station.gtfs_stop_id \o "S", <<lat[1], lon[1]>>))

\* the loop of GtfsHandler::new over the station records: None when a parse fails
RECURSIVE LoadStations(_, _)
LoadStations(stations, m) ==
    IF stations = <<>> THEN Some(m)
    ELSE LET station == Head(stations)
             lat == ParseF64(station.gtfs_latitude)
             lon == ParseF64(station.gtfs_longitude)
         IN  IF lat = None \/ lon = None THEN None
             ELSE LoadStations(Tail(stations),
                    MapInsert(MapInsert(m, station.gtfs_stop_id \o "N", <<lat[1], lon[1]>>),
                              station.gtfs_stop_id \o "S", <<lat[1], lon[1]>>))

\* a lookup that answers the origin for a key the map lacks
MapGetOrOrigin(m, k) == IF k \in DOMAIN m THEN Some(m[k]) ELSE Some(<<F64(0), F64(0)>>)

\* HashMap::get
MapGet(m, k) == IF k \in DOMAIN m THEN Some(m[k]) ELSE None

(***************************************************************************)
(* The snapshot computation (GtfsHandler::get_train_positions).            *)
(***************************************************************************)
\* the feed URLs polled by one snapshot computation
NumFeeds == 8

\* from_time: departure, else arrival, then the time of the chosen entry
FromTime(from_stop) ==
    LET t == OrOpt(from_stop.departure, from_stop.arrival)
    IN  IF t = None THEN None ELSE t[1].time

\* to_time: arrival, else departure, then the time of the chosen entry
ToTime(to_stop) ==
    LET t == OrOpt(to_stop.arrival, to_stop.departure)
    IN  IF t = None THEN None ELSE t[1].time

\* the share of the segment still ahead instead of the share behind
ProgressRemaining(current_time, from_time, to_time) ==
    FDiv(F64(to_time - current_time), F64(to_time - from_time))

\* progress of a train between two stops
Progress(current_time, from_time, to_time) ==
    FDiv(F64(current_time - from_time), F64(to_time - from_time))

\* a guard that forgets the end of the segment
InSegmentOpenEnded(current_time, from_time, to_time) == current_time >= from_time

\* the guard on the reference time
InSegment(current_time, from_time, to_time) ==
    current_time >= from_time /\ current_time <= to_time

\* the body of the loop over windows(2): the positions pushed for one window
WindowPositions(trip, from_stop, to_stop, current_time, locs) ==
    LET from_time == FromTime(from_stop)
        to_time == ToTime(to_stop)
    IN  IF from_time = None \/ to_time = None
           \/ from_stop.stop_id = None \/ to_stop.stop_id = None
        THEN <<>>
        ELSE IF ~InSegment(current_time, from_time[1], to_time[1]) THEN <<>>
        ELSE LET from_loc == MapGet(locs, from_stop.stop_id[1])
                 to_loc == MapGet(locs, to_stop.stop_id[1])
             IN  IF from_loc = None \/ to_loc = None THEN <<>>
                 ELSE << [trip_id |-> UnwrapOrDefaultStr(trip.trip_id),
                          route_id |-> UnwrapOrDefaultStr(trip.route_id),
                          from_stop |-> [stop_id |-> from_stop.stop_id[1],
                                         latitude |-> from_loc[1][1],
                                         longitude |-> from_loc[1][2]],
                          to_stop |-> [stop_id |-> to_stop.stop_id[1],
                                       latitude |-> to_loc[1][1],
                                       longitude |-> to_loc[1][2]],
                          progress |-> Progress(current_time, from_time[1], to_time[1]),
                          start_time |-> from_time[1],
                          end_time |-> to_time[1]] >>

\* a loop over disjoint pairs (chunks of two) instead of a sliding window
RECURSIVE TripPositionsChunks(_, _, _, _)
TripPositionsChunks(trip_update, i, current_time, locs) ==
    IF i + 1 > Len(trip_update.stop_time_update) THEN <<>>
    ELSE WindowPositions(trip_update.trip, trip_update.stop_time_update[i],
                         trip_update.stop_time_update[i + 1], current_time, locs)
         \o TripPositionsChunks(trip_update, i + 2, current_time, locs)

\* the loop over stop_time_update.windows(2), from window i on
RECURSIVE TripPositions(_, _, _, _)
TripPositions(trip_update, i, current_time, locs) ==
    IF i + 1 > Len(trip_update.stop_time_update) THEN <<>>
    ELSE WindowPositions(trip_update.trip, trip_update.stop_time_update[i],
                         trip_update.stop_time_update[i + 1], current_time, locs)
         \o TripPositions(trip_update, i + 1, current_time, locs)

\* the loop over feed.entity
RECURSIVE FeedPositions(_, _, _)
FeedPositions(entities, current_time, locs) ==
    IF entities = <<>> THEN <<>>
    ELSE (IF Head(entities).trip_update = None THEN <<>>
          ELSE TripPositions(Head(entities).trip_update[1], 1, current_time, locs))
         \o FeedPositions(Tail(entities), current_time, locs)

(***************************************************************************)
(* The feed messages a source can answer.                                  *)
(***************************************************************************)
Times == 0..MaxTime

\* the reference times Utc::now().timestamp() can give
Clock == 0..(MaxTime + 1)

\* gtfs_rt::StopTimeEvent, of which only time is read
StopTimeEvents == [time : Option(Times)]

\* stop ids of a feed: two of the index, one outside it
FeedStopIds == {"L06N", "L08S", "X99N"}

\* trips of two known stops with every combination of arrival and departure
TimingTrips ==
    { [trip |-> [trip_id |-> Some("T1"), route_id |-> Some("L")],
       stop_time_update |->
          << [stop_id |-> Some("L06N"), arrival |-> a1, departure |-> d1],
             [stop_id |-> Some("L08N"), arrival |-> a2, departure |-> d2] >>] :
      a1 \in Option(StopTimeEvents), d1 \in Option(StopTimeEvents),
      a2 \in Option(StopTimeEvents), d2 \in Option(StopTimeEvents) }

\* the k-th stop of a trip on schedule: arrival and departure at time k - 1
ScheduledStop(k, sid) ==
    [stop_id |-> sid,
     arrival |-> Some([time |-> Some(k - 1)]),
     departure |-> Some([time |-> Some(k - 1)])]

\* trips on schedule with 0..MaxStops stops, each stop id known, unknown or absent
ShapeTrips ==
    UNION { { [trip |-> [trip_id |-> tid, route_id |-> Some("L")],
               stop_time_update |-> [k \in 1..n |-> ScheduledStop(k, sids[k])]] :
              sids \in [1..n -> Option(FeedStopIds)], tid \in Option({"T1"}) } :
            n \in 0..MaxStops }

\* the entity that leads a feed message
Entities ==
    {[trip_update |-> None]} \cup {[trip_update |-> Some(t)] : t \in TimingTrips \cup ShapeTrips}

\* the entities that may follow it: another trip, a trip without trip_id
CompanionEntities ==
    { [trip_update |-> Some([trip |-> [trip_id |-> Some("T2"), route_id |-> Some("A")],
          stop_time_update |->
             << [stop_id |-> Some("L08S"), arrival |-> None,
                 departure |-> Some([time |-> Some(0)])],
                [stop_id |-> Some("L06S"), arrival |-> Some([time |-> Some(MaxTime)]),
                 departure |-> None] >>])],
      [trip_update |-> Some([trip |-> [trip_id |-> None, route_id |-> None],
          stop_time_update |->
             << [stop_id |-> Some("L06N"), arrival |-> None,
                 departure |-> Some([time |-> Some(0)])],
                [stop_id |-> Some("L08N"), arrival |-> Some([time |-> Some(MaxTime)]),
                 departure |-> None] >>])] }

\* FeedMessage.entity of the messages the first feed URL can answer
Feeds ==
    {<<>>} \cup
    UNION { { <<e>> \o cs : e \in Entities, cs \in [1..n -> CompanionEntities] } :
            n \in 0..(MaxEntities - 1) }

\* the messages the other feed URLs can answer: no entity, or one trip
QuietFeeds == {<<>>} \cup {<<e>> : e \in CompanionEntities}

\* the messages feed URL number i (from 0) can answer
FeedsOf(i) == IF i = 0 THEN Feeds ELSE QuietFeeds

(***************************************************************************)
(* The tracked store of the frontend (fetch_train_positions).              *)
(***************************************************************************)
\* the period of the update timer, in milliseconds
IntervalMs == 500

\* js_sys::Date::now() / 1000.0
SecondsOf(date_now) == Frac(date_now, 1000)

\* a deserializer that takes every body as it comes
ParseBodyLenient(text) == Some(text)

\* serde_json on the way from the backend to the frontend: a progress that is not
\* finite is written as null, which does not parse as f64
ParseBody(text) ==
    IF \E i \in DOMAIN text : ~IsFinite(text[i].progress) THEN None ELSE Some(text)

\* a batch that never clears the trains at the end of their journey
RetainEverything(states) == states

\* train_states.retain(|_, state| state.current_progress < 1.0)
Retain(states) ==
    [t \in {x \in DOMAIN states : FLt(states[x].current_progress, F64(1))} |-> states[t]]

\* the set of trip ids of the new update
UpdatedTrips(new_positions) == {new_positions[i].trip_id : i \in DOMAIN new_positions}

\* a continuation that takes the elapsed time with the wrong sign
ContinueMovementReversed(state, current_time) ==
    LET time_delta == FSub(state.last_update, current_time)
        total_journey_time == F64(state.position.end_time - state.position.start_time)
        progress_increment ==
            IF FGt(total_journey_time, F64(0))
            THEN FDiv(time_delta, total_journey_time)
            ELSE F64(0)
    IN  [position |-> state.position,
         current_progress |-> FMin(FAdd(state.current_progress, progress_increment), F64(1)),
         last_update |-> current_time]

\* a train that was not in the update continues its movement
ContinueMovement(state, current_time) ==
    LET time_delta == FSub(current_time, state.last_update)
        total_journey_time == F64(state.position.end_time - state.position.start_time)
        progress_increment ==
            IF FGt(total_journey_time, F64(0))
            THEN FDiv(time_delta, total_journey_time)
            ELSE F64(0)
    IN  [position |-> state.position,
         current_progress |-> FMin(FAdd(state.current_progress, progress_increment), F64(1)),
         last_update |-> current_time]

\* a loop that forgets the trips the new update does not report
ContinueAllDropAbsent(states, updated_trips, current_time) ==
    [t \in DOMAIN states \cap updated_trips |-> states[t]]

\* the loop over train_states.iter_mut()
ContinueAll(states, updated_trips, current_time) ==
    [t \in DOMAIN states |->
        IF t \notin updated_trips THEN ContinueMovement(states[t], current_time)
        ELSE states[t]]

\* a merge that keys the entries by trip and departure stop instead of by trip
ApplyPositionKeyedBySegment(states, new_pos, current_time) ==
    LET key == new_pos.trip_id \o "/" \o new_pos.from_stop.stop_id
    IN  IF key \in DOMAIN states
        THEN states
        ELSE MapInsert(states, key,
                       [position |-> new_pos,
                        current_progress |-> F64(0),
                        last_update |-> current_time])

\* a merge that takes every report of a tracked trip, on its tracked segment or not
ApplyPositionEveryReport(states, new_pos, current_time) ==
    IF new_pos.trip_id \in DOMAIN states
    THEN [states EXCEPT ![new_pos.trip_id] =
             [position |-> new_pos,
              current_progress |-> new_pos.progress,
              last_update |-> current_time]]
    ELSE MapInsert(states, new_pos.trip_id,
                   [position |-> new_pos,
                    current_progress |-> F64(0),
                    last_update |-> current_time])

\* a merge that replaces the position of a trip on a new segment but keeps its progress
ApplyPositionKeepProgress(states, new_pos, current_time) ==
    IF new_pos.trip_id \in DOMAIN states
    THEN IF \/ states[new_pos.trip_id].position.from_stop.stop_id # new_pos.from_stop.stop_id
            \/ states[new_pos.trip_id].position.to_stop.stop_id # new_pos.to_stop.stop_id
         THEN [states EXCEPT ![new_pos.trip_id] =
                  [position |-> new_pos,
                   current_progress |-> states[new_pos.trip_id].current_progress,
                   last_update |-> current_time]]
         ELSE states
    ELSE MapInsert(states, new_pos.trip_id,
                   [position |-> new_pos,
                    current_progress |-> F64(0),
                    last_update |-> current_time])

\* entry(trip_id).and_modify(..).or_insert_with(..) for one new position
ApplyPosition(states, new_pos, current_time) ==
    IF new_pos.trip_id \in DOMAIN states
    THEN IF \/ states[new_pos.trip_id].position.from_stop.stop_id # new_pos.from_stop.stop_id
            \/ states[new_pos.trip_id].position.to_stop.stop_id # new_pos.to_stop.stop_id
         THEN [states EXCEPT ![new_pos.trip_id] =
                  [position |-> new_pos,
                   current_progress |-> new_pos.progress,
                   last_update |-> current_time]]
         ELSE states
    ELSE MapInsert(states, new_pos.trip_id,
                   [position |-> new_pos,
                    current_progress |-> F64(0),
                    last_update |-> current_time])

\* the loop over new_positions
RECURSIVE ApplyPositions(_, _, _)
ApplyPositions(states, new_positions, current_time) ==
    IF new_positions = <<>> THEN states
    ELSE ApplyPositions(ApplyPosition(states, Head(new_positions), current_time),
                        Tail(new_positions), current_time)

\* the color of a route, by the first character of its id
RouteColor(route_id) ==
    CASE route_id = "L" -> "#A7A9AC"
      [] route_id = "A" -> "#0039A6"
      [] OTHER -> "#808183"

\* a read that does not filter on the progress
FeaturesUnfiltered(states) ==
    [t \in DOMAIN states |->
        LET state == states[t]
            current_lat ==
                FAdd(state.position.from_stop.latitude,
                     FMul(FSub(state.position.to_stop.latitude,
                               state.position.from_stop.latitude),
                          state.current_progress))
            current_lon ==
                FAdd(state.position.from_stop.longitude,
                     FMul(FSub(state.position.to_stop.longitude,
                               state.position.from_stop.longitude),
                          state.current_progress))
        IN  [name |-> "Train " \o state.position.route_id,
             lines |-> state.position.route_id,
             color |-> RouteColor(state.position.route_id),
             coordinates |-> <<current_lon, current_lat>>]]

\* the features of the trains with progress < 1.0, here keyed by trip id (the code
\* collects them in the map's iteration order)
Features(states) ==
    [t \in {x \in DOMAIN states : FLt(states[x].current_progress, F64(1))} |->
        LET state == states[t]
            current_lat ==
                FAdd(state.position.from_stop.latitude,
                     FMul(FSub(state.position.to_stop.latitude,
                               state.position.from_stop.latitude),
                          state.current_progress))
            current_lon ==
                FAdd(state.position.from_stop.longitude,
                     FMul(FSub(state.position.to_stop.longitude,
                               state.position.from_stop.longitude),
                          state.current_progress))
        IN  [name |-> "Train " \o state.position.route_id,
             lines |-> state.position.route_id,
             color |-> RouteColor(state.position.route_id),
             coordinates |-> <<current_lon, current_lat>>]]

\* the store after the batch run under the lock: retain, continue, apply
MergeSnapshot(states, new_positions, current_time) ==
    ApplyPositions(
        ContinueAll(Retain(states), UpdatedTrips(new_positions), current_time),
        new_positions, current_time)

(***************************************************************************)
(* The bodies /api/trains can answer.                                      *)
(***************************************************************************)
\* the index of a handler whose reference data loaded
StopIndex == LoadStations(Stations, <<>>)[1]

\* the Position the backend pushes for a trip between two stops of the index
BackendPosition(trip_id, route_id, from_id, to_id, from_time, to_time, now) ==
    [trip_id |-> trip_id,
     route_id |-> route_id,
     from_stop |-> [stop_id |-> from_id, latitude |-> StopIndex[from_id][1],
                    longitude |-> StopIndex[from_id][2]],
     to_stop |-> [stop_id |-> to_id, latitude |-> StopIndex[to_id][1],
                  longitude |-> StopIndex[to_id][2]],
     progress |-> Progress(now, from_time, to_time),
     start_time |-> from_time,
     end_time |-> to_time]

\* trip ids of the answers: a trip id, and the default of a trip without one
StoreTripIds == {"T1", ""}

\* the segments of the answers, each with its start and end time; the feed may
\* predict new times for a segment it reported before
StoreSegments ==
    { <<"L06N", "L08N", 0, 2>>, <<"L06N", "L08N", 3, 4>>,
      <<"L08N", "L10N", 1, 2>>, <<"L08N", "L10N", 2, 2>> }

\* the positions the backend can push for those trips and segments at reference time now
ApiPositions(now) ==
    { BackendPosition(x[1], "L", x[2][1], x[2][2], x[2][3], x[2][4], now) :
        x \in { y \in StoreTripIds \X StoreSegments : InSegment(now, y[2][3], y[2][4]) } }

\* the bodies: no position, one position or two, computed at one reference time
Bodies == UNION { UNION { [1..n -> ApiPositions(now)] : n \in {0, 1, 2} } : now \in Clock }

\* fetch_train_positions takes whatever answers at the URL and deserializes as
\* Vec<TrainPosition>: the progress of such a Position is any JSON number, here one
\* below 0.0 and one above 1.0
ForeignProgress == {Frac(-1, 2), Frac(3, 2)}

\* the bodies of one such Position, of trip T1 on a segment of the index
ForeignBodies ==
    { << [BackendPosition("T1", "L", x[1][1], x[1][2], x[1][3], x[1][4], x[1][3])
            EXCEPT !.progress = x[2]] >> :
        x \in {<<"L06N", "L08N", 0, 2>>, <<"L08N", "L10N", 1, 2>>} \X ForeignProgress }

(***************************************************************************)
(* The station layer of the map (GeoJsonCollection::new).                  *)
(***************************************************************************)
\* the color of a station, by the first character of its line
LineColor(line) ==
    CASE line = "L"        -> "#A7A9AC"
      [] line = "Canarsie" -> "#0039A6"
      [] OTHER             -> "#808183"

\* a feature with the coordinates in the order [latitude, longitude]
StationFeatureLatLon(station) ==
    [feature_type |-> "Feature",
     properties |->
        [name |-> station.stop_name,
         lines |-> station.daytime_routes,
         division |-> station.division,
         borough |-> station.borough,
         ada |-> (UnwrapOrDefaultStr(station.ada) = "TRUE"),
         ada_notes |-> UnwrapOrDefaultStr(station.ada_notes),
         north_direction |-> UnwrapOrDefaultStr(station.north_direction_label),
         south_direction |-> UnwrapOrDefaultStr(station.south_direction_label),
         color |-> LineColor(station.line)],
     geometry |->
        [geometry_type |-> "Point",
         coordinates |-> <<station.gtfs_latitude, station.gtfs_longitude>>]]

\* the closure of the map over the stations
StationFeature(station) ==
    [feature_type |-> "Feature",
     properties |->
        [name |-> station.stop_name,
         lines |-> station.daytime_routes,
         division |-> station.division,
         borough |-> station.borough,
         ada |-> (UnwrapOrDefaultStr(station.ada) = "TRUE"),
         ada_notes |-> UnwrapOrDefaultStr(station.ada_notes),
         north_direction |-> UnwrapOrDefaultStr(station.north_direction_label),
         south_direction |-> UnwrapOrDefaultStr(station.south_direction_label),
         color |-> LineColor(station.line)],
     geometry |->
        [geometry_type |-> "Point",
         coordinates |-> <<station.gtfs_longitude, station.gtfs_latitude>>]]

\* GeoJsonCollection::new: into_iter().map(..).collect() keeps the order
GeoJsonCollectionNew(stations) ==
    [collection_type |-> "FeatureCollection",
     features |-> [i \in 1..Len(stations) |-> StationFeature(stations[i])]]

\* the deserialized records of the station directory
SubwayStationResponses ==
    [stop_name : {"14th St", "Union Square"},
     daytime_routes : {"L", "L,N,Q,R,4,5,6"},
     gtfs_latitude : {Frac(407, 10)},
     gtfs_longitude : {Frac(-739, 10), Frac(-7399, 100)},
     division : {"IRT"},
     line : {"L", "Canarsie"},
     borough : {"Manhattan"},
     ada : Option({"TRUE"}),
     ada_notes : {None},
     north_direction_label : {Some("Manhattan")},
     south_direction_label : {None}]

\* the answers of the directory: up to MaxStations records
SubwayStationLists ==
    UNION { [1..n -> SubwayStationResponses] : n \in 0..MaxStations }

(***************************************************************************)
(* State.                                                                  *)
(***************************************************************************)
VARIABLES
    stop_locations,  \* GtfsHandler.stop_locations: stop id -> <<lat, lon>>
    pc,              \* position of the running get_train_positions call
    feed_idx,        \* number of feed URLs the loop has finished
    positions,       \* the Vec the call collects into
    feed,            \* FeedMessage.entity of the feed decoded in this iteration
    current_time,    \* Utc::now().timestamp() of this iteration
    result,          \* what the call returned: "pending", "Ok" or "Err"
    response,        \* the body the /api/trains handler answers with
    train_states,    \* TRAIN_STATES: trip id -> TrainState
    date_now,        \* js_sys::Date::now(), in milliseconds
    issued,          \* number of update tasks the timer has spawned
    inflight,        \* number of update tasks that await their response
    task,            \* "merge" while an update task runs its batch, else "idle"
    new_positions,   \* the parsed positions of the running task
    fe_current_time, \* current_time of the running task, in seconds
    features,        \* the features of the last collection returned
    station_records, \* stations: the records GtfsHandler::new deserialized
    new_result,      \* what GtfsHandler::new returned: "pending", "Ok" or "Err"
    fetched_stations,\* stations: the records fetch_subway_stations deserialized
    collection,      \* the GeoJsonCollection built from them, None before
    req_pc,          \* per update task: the statement of Program it is at
    req_text,        \* per update task: the body its request was answered with
    req_result,      \* per update task: "pending", "Ok" or "Err"
    running,         \* the update task the executor is polling, 0 for none
    lock,            \* the update task that holds the guard of TRAIN_STATES, 0 for none
    merged,          \* the update tasks that returned Ok, in the order they did
    prev_update      \* current_time of the last batch that completed

backendVars ==
    <<stop_locations, pc, feed_idx, positions, feed, current_time, result, response>>

storeVars ==
    <<train_states, date_now, issued, inflight, task, new_positions, fe_current_time,
      features>>

loadVars == <<station_records, new_result>>

geoVars == <<fetched_stations, collection>>

taskVars == <<req_pc, req_text, req_result, running, lock, merged, prev_update>>

vars == <<backendVars, storeVars, loadVars, geoVars, taskVars>>

\* Result::unwrap_or_default in the /api/trains handler
HandlerResponse(res, collected) == IF res = "Ok" THEN collected ELSE <<>>

InitBackend ==
    /\ stop_locations = LoadStations(Stations, <<>>)[1]
    /\ pc = "fetch"
    /\ feed_idx = 0
    /\ positions = <<>>
    /\ feed = <<>>
    /\ current_time = 0
    /\ result = "pending"
    /\ response = <<>>

\* send, bytes, Utc::now and decode of one feed URL all succeed
FetchFeed ==
    /\ pc = "fetch" /\ result = "pending" /\ feed_idx < NumFeeds
    /\ \E f \in FeedsOf(feed_idx), t \in Clock :
          /\ t >= current_time
          /\ Len(positions) < MaxPositions \/ f = <<>>
          /\ feed' = f
          /\ current_time' = t
    /\ pc' = "process"
    /\ UNCHANGED <<stop_locations, feed_idx, positions, result, response>>
    /\ UNCHANGED storeVars
    /\ UNCHANGED <<loadVars, geoVars, taskVars>>

\* send or bytes fails: `?` returns the error, the handler answers the default
FetchFails ==
    /\ pc = "fetch" /\ result = "pending" /\ feed_idx < NumFeeds
    /\ result' = "Err"
    /\ response' = HandlerResponse("Err", positions)
    /\ pc' = "done"
    /\ UNCHANGED <<stop_locations, feed_idx, positions, feed, current_time>>
    /\ UNCHANGED storeVars
    /\ UNCHANGED <<loadVars, geoVars, taskVars>>

\* the bytes arrive and the clock is read, but FeedMessage::decode fails
DecodeFails ==
    /\ pc = "fetch" /\ result = "pending" /\ feed_idx < NumFeeds
    /\ \E t \in Clock : t >= current_time /\ current_time' = t
    /\ result' = "Err"
    /\ response' = HandlerResponse("Err", positions)
    /\ pc' = "done"
    /\ UNCHANGED <<stop_locations, feed_idx, positions, feed>>
    /\ UNCHANGED storeVars
    /\ UNCHANGED <<loadVars, geoVars, taskVars>>

\* the loop over the entities of the decoded feed
ProcessFeed ==
    /\ pc = "process"
    /\ positions' = positions \o FeedPositions(feed, current_time, stop_locations)
    /\ pc' = "next"
    /\ UNCHANGED <<stop_locations, feed_idx, feed, current_time, result, response>>
    /\ UNCHANGED storeVars
    /\ UNCHANGED <<loadVars, geoVars, taskVars>>

\* end of the iteration: the decoded feed is dropped
NextFeed ==
    /\ pc = "next"
    /\ feed' = <<>>
    /\ feed_idx' = feed_idx + 1
    /\ pc' = "fetch"
    /\ UNCHANGED <<stop_locations, positions, current_time, result, response>>
    /\ UNCHANGED storeVars
    /\ UNCHANGED <<loadVars, geoVars, taskVars>>

\* every feed URL was processed: Ok(positions)
ReturnPositions ==
    /\ pc = "fetch" /\ result = "pending" /\ feed_idx = NumFeeds
    /\ result' = "Ok"
    /\ response' = HandlerResponse("Ok", positions)
    /\ pc' = "done"
    /\ UNCHANGED <<stop_locations, feed_idx, positions, feed, current_time>>
    /\ UNCHANGED storeVars
    /\ UNCHANGED <<loadVars, geoVars, taskVars>>

\* the next GET /api/trains starts a new call
NewRequest ==
    /\ pc = "done"
    /\ pc' = "fetch"
    /\ feed_idx' = 0
    /\ positions' = <<>>
    /\ feed' = <<>>
    /\ result' = "pending"
    /\ response' = <<>>
    /\ UNCHANGED <<stop_locations, current_time>>
    /\ UNCHANGED storeVars
    /\ UNCHANGED <<loadVars, geoVars, taskVars>>

InitStore ==
    /\ train_states = <<>>
    /\ date_now = 0
    /\ issued = 0
    /\ inflight = 0
    /\ task = "idle"
    /\ new_positions = <<>>
    /\ fe_current_time = F64(0)
    /\ features = <<>>

\* the handler was built from the records of Stations
InitLoaded ==
    /\ station_records = Stations
    /\ new_result = "Ok"

\* the station layer of the map is not part of the run
InitNoCollection ==
    /\ fetched_stations = <<>>
    /\ collection = None

\* no update task is followed by itself
InitNoTasks ==
    /\ req_pc = [r \in 1..MaxTicks |-> 0]
    /\ req_text = [r \in 1..MaxTicks |-> None]
    /\ req_result = [r \in 1..MaxTicks |-> "pending"]
    /\ running = 0
    /\ lock = 0
    /\ merged = <<>>
    /\ prev_update = F64(0)

\* the interval timer fires: update_trains spawns a task, which sends its request
TimerFires ==
    /\ task = "idle"
    /\ issued < MaxTicks
    /\ date_now' = date_now + IntervalMs
    /\ issued' = issued + 1
    /\ inflight' = inflight + 1
    /\ UNCHANGED <<train_states, task, new_positions, fe_current_time, features>>
    /\ UNCHANGED backendVars
    /\ UNCHANGED <<loadVars, geoVars, taskVars>>

\* the request of a task fails: fetch_train_positions returns the error
RequestFails ==
    /\ task = "idle"
    /\ inflight > 0 /\ inflight' = inflight - 1
    /\ UNCHANGED <<train_states, date_now, issued, task, new_positions, fe_current_time,
                   features>>
    /\ UNCHANGED backendVars
    /\ UNCHANGED <<loadVars, geoVars, taskVars>>

\* the response of a task arrives, but its body does not parse
ParseFails ==
    /\ task = "idle"
    /\ inflight > 0 /\ inflight' = inflight - 1
    /\ \E text \in Bodies : ParseBody(text) = None
    /\ UNCHANGED <<train_states, date_now, issued, task, new_positions, fe_current_time,
                   features>>
    /\ UNCHANGED backendVars
    /\ UNCHANGED <<loadVars, geoVars, taskVars>>

\* the response of a task arrives and parses; the task reads the clock
ResponseParsed ==
    /\ task = "idle"
    /\ inflight > 0 /\ inflight' = inflight - 1
    /\ \E text \in Bodies :
          /\ ParseBody(text) # None
          /\ new_positions' = ParseBody(text)[1]
    /\ fe_current_time' = SecondsOf(date_now)
    /\ task' = "merge"
    /\ UNCHANGED <<train_states, date_now, issued, features>>
    /\ UNCHANGED backendVars
    /\ UNCHANGED <<loadVars, geoVars, taskVars>>

\* the response of a task arrives from a server that is not this backend, and parses
ForeignResponseParsed ==
    /\ task = "idle"
    /\ inflight > 0 /\ inflight' = inflight - 1
    /\ \E text \in ForeignBodies :
          /\ ParseBody(text) # None
          /\ new_positions' = ParseBody(text)[1]
    /\ fe_current_time' = SecondsOf(date_now)
    /\ task' = "merge"
    /\ UNCHANGED <<train_states, date_now, issued, features>>
    /\ UNCHANGED backendVars
    /\ UNCHANGED <<loadVars, geoVars, taskVars>>

\* the batch under the lock of TRAIN_STATES, which consumes new_positions, and the
\* collection the task returns before it ends
UpdateTrainStates ==
    /\ task = "merge"
    /\ train_states' = MergeSnapshot(train_states, new_positions, fe_current_time)
    /\ features' = Features(train_states')
    /\ new_positions' = <<>>
    /\ fe_current_time' = F64(0)
    /\ task' = "idle"
    /\ UNCHANGED <<date_now, issued, inflight>>
    /\ UNCHANGED backendVars
    /\ UNCHANGED <<loadVars, geoVars, taskVars>>

Next ==
    \/ FetchFeed
    \/ FetchFails
    \/ DecodeFails
    \/ ProcessFeed
    \/ NextFeed
    \/ ReturnPositions
    \/ NewRequest

NextStore ==
    \/ TimerFires
    \/ RequestFails
    \/ ParseFails
    \/ ResponseParsed
    \/ UpdateTrainStates

\* the steps of the store when any server may answer at the URL
NextOpenStore ==
    \/ TimerFires
    \/ RequestFails
    \/ ParseFails
    \/ ResponseParsed
    \/ ForeignResponseParsed
    \/ UpdateTrainStates

Init == InitBackend /\ InitStore /\ InitLoaded /\ InitNoCollection /\ InitNoTasks

\* the snapshot computation of the backend
Spec == Init /\ [][Next]_vars

\* the tracked store of the frontend
SpecStore == Init /\ [][NextStore]_vars

\* the snapshot computation with the steps the code takes by itself under weak
\* fairness; the arrival of a response (FetchFeed, FetchFails, DecodeFails) is the
\* source's step, and the client is built without a timeout that would end the wait
SpecFair ==
    /\ Init
    /\ [][Next]_vars
    /\ WF_vars(ProcessFeed)
    /\ WF_vars(NextFeed)
    /\ WF_vars(ReturnPositions)

\* the tracked store of the frontend, whatever server answers at the URL
SpecOpenStore == Init /\ [][NextOpenStore]_vars

(***************************************************************************)
(* Startup of the backend (GtfsHandler::new called from main).             *)
(***************************************************************************)
\* main has called GtfsHandler::new, which has deserialized the station records
InitNew ==
    /\ station_records \in StationLists
    /\ new_result = "pending"
    /\ stop_locations = <<>>
    /\ pc = "new"
    /\ feed_idx = 0
    /\ positions = <<>>
    /\ feed = <<>>
    /\ current_time = 0
    /\ result = "pending"
    /\ response = <<>>

\* the loop over the records and the return: Ok(Self) with the index, or the error of
\* the first record that does not parse, on which main exits
NewHandler ==
    /\ pc = "new" /\ new_result = "pending"
    /\ LET loaded == LoadStations(station_records, <<>>)
       IN  IF loaded = None
           THEN /\ new_result' = "Err"
                /\ pc' = "exit"
                /\ UNCHANGED stop_locations
           ELSE /\ new_result' = "Ok"
                /\ pc' = "fetch"
                /\ stop_locations' = loaded[1]
    /\ UNCHANGED <<feed_idx, positions, feed, current_time, result, response>>
    /\ UNCHANGED station_records
    /\ UNCHANGED <<storeVars, geoVars, taskVars>>

\* an await of GtfsHandler::new fails after the records were read (the connection
\* drops before the body ends): `?` returns the error
NewFails ==
    /\ pc = "new" /\ new_result = "pending"
    /\ new_result' = "Err"
    /\ pc' = "exit"
    /\ UNCHANGED <<stop_locations, feed_idx, positions, feed, current_time, result,
                   response>>
    /\ UNCHANGED station_records
    /\ UNCHANGED <<storeVars, geoVars, taskVars>>

NextLoad ==
    \/ NewHandler
    \/ NewFails

InitLoad == InitNew /\ InitStore /\ InitNoCollection /\ InitNoTasks

\* the startup of the backend
SpecLoad == InitLoad /\ [][NextLoad]_vars

(***************************************************************************)
(* The station layer (fetch_subway_stations).                              *)
(***************************************************************************)
\* fetch_subway_stations has deserialized the answer of the directory
InitStations ==
    /\ fetched_stations \in SubwayStationLists
    /\ collection = None

\* Ok(GeoJsonCollection::new(stations))
NewCollection ==
    /\ collection = None
    /\ collection' = Some(GeoJsonCollectionNew(fetched_stations))
    /\ UNCHANGED fetched_stations
    /\ UNCHANGED <<backendVars, storeVars, loadVars, taskVars>>

NextGeo ==
    \/ NewCollection

InitGeo == InitBackend /\ InitStore /\ InitLoaded /\ InitStations /\ InitNoTasks

\* the station layer of the map
SpecGeo == InitGeo /\ [][NextGeo]_vars

(***************************************************************************)
(* The update tasks of the frontend, each followed through its statements. *)
(* update_trains spawns one task per firing of the timer with spawn_local: *)
(* the tasks share one executor thread, so a task that is polled runs up   *)
(* to its next await before any other task or timer callback runs.         *)
(***************************************************************************)
\* the feed of the day: trip T1 calls at L06N, L08N and L10N at times 0, 1 and 2;
\* trip T2 is predicted at L08S and at L06S at the same time 3
TimelineFeed ==
    << [trip_update |-> Some(
          [trip |-> [trip_id |-> Some("T1"), route_id |-> Some("L")],
           stop_time_update |->
              << ScheduledStop(1, Some("L06N")), ScheduledStop(2, Some("L08N")),
                 ScheduledStop(3, Some("L10N")) >>])],
       [trip_update |-> Some(
          [trip |-> [trip_id |-> Some("T2"), route_id |-> Some("L")],
           stop_time_update |->
              << ScheduledStop(4, Some("L08S")), ScheduledStop(4, Some("L06S")) >>])] >>

\* the positions get_train_positions collects at reference time now when one feed URL
\* answers TimelineFeed and the others answer no entity
Snapshot(now) == FeedPositions(TimelineFeed, now, StopIndex)

\* a task that takes the guard before it sends its request
ProgramLockFirst == <<"lock", "send", "text", "parse", "merge">>

\* the statements of fetch_train_positions, in the order of the source: the two
\* awaits, the parse with the clock reading, the lock, and the batch up to the return
Program == <<"send", "text", "parse", "lock", "merge">>

\* the statements that are an .await
Awaits == {"send", "text"}

\* the position of a task that has returned
Finished == Len(Program) + 1

\* the statement task r is at
Stmt(r) == IF req_pc[r] \in 1..Len(Program) THEN Program[req_pc[r]] ELSE "none"

\* task r goes on to its next statement, and is suspended there if it is an await
Advance(r) ==
    /\ req_pc' = [req_pc EXCEPT ![r] = req_pc[r] + 1]
    /\ running' = IF Program[req_pc[r] + 1] \in Awaits THEN 0 ELSE r

\* task r returns res: its locals are dropped, the guard with them if it holds it
Leave(r, res) ==
    /\ req_pc' = [req_pc EXCEPT ![r] = Finished]
    /\ req_result' = [req_result EXCEPT ![r] = res]
    /\ running' = 0
    /\ lock' = IF lock = r THEN 0 ELSE lock

\* the interval timer fires: update_trains spawns a task, which runs to its first await
SpawnUpdate ==
    /\ running = 0
    /\ issued < MaxTicks
    /\ date_now' = date_now + IntervalMs
    /\ issued' = issued + 1
    /\ req_pc' = [req_pc EXCEPT ![issued + 1] = 1]
    /\ running' = IF Program[1] \in Awaits THEN 0 ELSE issued + 1
    /\ UNCHANGED <<train_states, inflight, task, new_positions, fe_current_time, features>>
    /\ UNCHANGED <<req_text, req_result, lock, merged, prev_update>>
    /\ UNCHANGED <<backendVars, loadVars, geoVars>>

\* send().await of task r gives a response: the handler read its clock and answers
\* the positions of that time, or it answers the default because a feed request failed
SendResolves(r) ==
    /\ running = 0
    /\ Stmt(r) = "send"
    /\ \/ \E t \in Clock :
             /\ t >= current_time
             /\ current_time' = t
             /\ req_text' = [req_text EXCEPT ![r] = Some(HandlerResponse("Ok", Snapshot(t)))]
       \/ /\ UNCHANGED current_time
          /\ req_text' = [req_text EXCEPT ![r] = Some(HandlerResponse("Err", <<>>))]
    /\ Advance(r)
    /\ UNCHANGED <<stop_locations, pc, feed_idx, positions, feed, result, response>>
    /\ UNCHANGED <<req_result, lock, merged, prev_update>>
    /\ UNCHANGED <<storeVars, loadVars, geoVars>>

\* send().await? of task r gives an error
SendFails(r) ==
    /\ running = 0
    /\ Stmt(r) = "send"
    /\ Leave(r, "Err")
    /\ UNCHANGED <<req_text, merged, prev_update>>
    /\ UNCHANGED <<backendVars, storeVars, loadVars, geoVars>>

\* text().await of task r gives the body
TextResolves(r) ==
    /\ running = 0
    /\ Stmt(r) = "text"
    /\ Advance(r)
    /\ UNCHANGED <<req_text, req_result, lock, merged, prev_update>>
    /\ UNCHANGED <<backendVars, storeVars, loadVars, geoVars>>

\* text().await? of task r gives an error
TextFails(r) ==
    /\ running = 0
    /\ Stmt(r) = "text"
    /\ Leave(r, "Err")
    /\ UNCHANGED <<req_text, merged, prev_update>>
    /\ UNCHANGED <<backendVars, storeVars, loadVars, geoVars>>

\* serde_json::from_str(&text)? and Date::now() / 1000.0
ParseStmt(r) ==
    /\ running = r
    /\ Stmt(r) = "parse"
    /\ LET parsed == ParseBody(req_text[r][1])
       IN  IF parsed = None
           THEN /\ Leave(r, "Err")
                /\ UNCHANGED <<new_positions, fe_current_time>>
           ELSE /\ new_positions' = parsed[1]
                /\ fe_current_time' = SecondsOf(date_now)
                /\ Advance(r)
                /\ UNCHANGED <<req_result, lock>>
    /\ UNCHANGED <<train_states, date_now, issued, inflight, task, features>>
    /\ UNCHANGED <<req_text, merged, prev_update>>
    /\ UNCHANGED <<backendVars, loadVars, geoVars>>

\* TRAIN_STATES.lock(): goes on only when no task holds the guard
LockStmt(r) ==
    /\ running = r
    /\ Stmt(r) = "lock"
    /\ lock = 0
    /\ lock' = r
    /\ Advance(r)
    /\ UNCHANGED <<req_text, req_result, merged, prev_update>>
    /\ UNCHANGED <<backendVars, storeVars, loadVars, geoVars>>

\* the batch on the store, the features, and Ok(GeoJsonCollection { .. }): the task
\* ends and its locals are dropped
MergeStmt(r) ==
    /\ running = r
    /\ Stmt(r) = "merge"
    /\ train_states' = MergeSnapshot(train_states, new_positions, fe_current_time)
    /\ features' = Features(train_states')
    /\ Leave(r, "Ok")
    /\ merged' = Append(merged, r)
    /\ prev_update' = fe_current_time
    /\ new_positions' = <<>>
    /\ fe_current_time' = F64(0)
    /\ UNCHANGED <<date_now, issued, inflight, task>>
    /\ UNCHANGED req_text
    /\ UNCHANGED <<backendVars, loadVars, geoVars>>

NextTasks ==
    \/ SpawnUpdate
    \/ \E r \in 1..MaxTicks : SendResolves(r)
    \/ \E r \in 1..MaxTicks : SendFails(r)
    \/ \E r \in 1..MaxTicks : TextResolves(r)
    \/ \E r \in 1..MaxTicks : TextFails(r)
    \/ \E r \in 1..MaxTicks : ParseStmt(r)
    \/ \E r \in 1..MaxTicks : LockStmt(r)
    \/ \E r \in 1..MaxTicks : MergeStmt(r)

\* the update tasks of the frontend against this backend
SpecTasks == Init /\ [][NextTasks]_vars

(***************************************************************************)
(* Vocabulary of the properties of the snapshot computation.               *)
(***************************************************************************)
\* the step of one call that runs the loop over the entities of a feed
ProcessStep == pc = "process" /\ pc' = "next"

\* the positions that step pushed
Pushed == SubSeq(positions', Len(positions) + 1, Len(positions'))

\* the consecutive pairs of a feed: <<entity index, index of the first stop event>>
WindowsOf(f) ==
    UNION { { <<e, i>> : i \in 1..(Len(f[e].trip_update[1].stop_time_update) - 1) } :
            e \in {x \in DOMAIN f : f[x].trip_update # None} }

TripOf(f, w) == f[w[1]].trip_update[1].trip

FromOf(f, w) == f[w[1]].trip_update[1].stop_time_update[w[2]]

ToOf(f, w) == f[w[1]].trip_update[1].stop_time_update[w[2] + 1]

\* the stop id of a stop event has an entry in the stop-location index
Known(ev) == ev.stop_id # None /\ ev.stop_id[1] \in DOMAIN stop_locations

\* position p names the trip and the two stops of pair w and carries times s and t
IsFor(p, f, w, s, t) ==
    /\ p.trip_id = (IF TripOf(f, w).trip_id = None THEN "" ELSE TripOf(f, w).trip_id[1])
    /\ FromOf(f, w).stop_id # None /\ p.from_stop.stop_id = FromOf(f, w).stop_id[1]
    /\ ToOf(f, w).stop_id # None /\ p.to_stop.stop_id = ToOf(f, w).stop_id[1]
    /\ p.start_time = s
    /\ p.end_time = t

\* pair w has both times as the code resolves them, and now lies within them
Contains(f, w, now) ==
    /\ FromTime(FromOf(f, w)) # None /\ ToTime(ToOf(f, w)) # None
    /\ FromTime(FromOf(f, w))[1] <= now /\ now <= ToTime(ToOf(f, w))[1]

\* x is (now - s) / (t - s), and 0, 1 or strictly between them as now lies in s..t
ExactProgress(x, now, s, t) ==
    /\ x.den > 0
    /\ x.num * (t - s) = (now - s) * x.den
    /\ (s < now /\ now < t) => (0 < x.num /\ x.num < x.den)
    /\ now = s => x = [num |-> 0, den |-> 1]
    /\ now = t => x = [num |-> 1, den |-> 1]

(***************************************************************************)
(* C1. Source isolation: when the fetch or the decode of one feed source   *)
(* fails, the answered snapshot still holds every position computed from   *)
(* the other sources.                                                      *)
(***************************************************************************)
C1_SourceIsolation ==
    result # "pending" =>
        \A i \in DOMAIN positions : \E j \in DOMAIN response : response[j] = positions[i]

(***************************************************************************)
(* C2. Every pair with resolved times start < end, known stops and         *)
(* start <= now <= end gets a Position whose progress is                   *)
(* (now - start) / (end - start) -- 0 at start, 1 at end, strictly between *)
(* otherwise -- and whose segment times are start and end; every pushed    *)
(* Position of a proper segment carries that progress.                     *)
(***************************************************************************)
C2_Interpolation ==
    [][ProcessStep =>
        /\ \A w \in WindowsOf(feed) :
              ( /\ Contains(feed, w, current_time)
                /\ FromTime(FromOf(feed, w))[1] < ToTime(ToOf(feed, w))[1]
                /\ Known(FromOf(feed, w)) /\ Known(ToOf(feed, w)) )
              => \E j \in DOMAIN Pushed :
                    /\ IsFor(Pushed[j], feed, w, FromTime(FromOf(feed, w))[1],
                             ToTime(ToOf(feed, w))[1])
                    /\ ExactProgress(Pushed[j].progress, current_time,
                                     Pushed[j].start_time, Pushed[j].end_time)
        /\ \A j \in DOMAIN Pushed :
              Pushed[j].start_time < Pushed[j].end_time
              => ExactProgress(Pushed[j].progress, current_time,
                               Pushed[j].start_time, Pushed[j].end_time)
      ]_vars

\* a train half way between two stops was pushed
C2_Witness ==
    /\ pc = "next"
    /\ \E w \in WindowsOf(feed), i \in DOMAIN positions :
          /\ Contains(feed, w, current_time)
          /\ FromTime(FromOf(feed, w))[1] < current_time
          /\ current_time < ToTime(ToOf(feed, w))[1]
          /\ IsFor(positions[i], feed, w, FromTime(FromOf(feed, w))[1],
                   ToTime(ToOf(feed, w))[1])
          /\ positions[i].progress = [num |-> 1, den |-> 2]

(***************************************************************************)
(* C3. No Position is emitted for a pair with end <= start: every emitted  *)
(* Position has segment_end_time > segment_start_time and a progress that  *)
(* is no division by zero.                                                 *)
(***************************************************************************)
C3_NoDegenerateSegment ==
    \A i \in DOMAIN positions :
        /\ positions[i].end_time > positions[i].start_time
        /\ IsFinite(positions[i].progress)

(***************************************************************************)
(* C4. No Position is emitted for a pair with now < start or now > end:    *)
(* every pushed Position is for a pair of the feed whose segment contains  *)
(* now.                                                                    *)
(***************************************************************************)
C4_OutOfSegment ==
    [][ProcessStep =>
        /\ \A j \in DOMAIN Pushed :
              /\ Pushed[j].start_time <= current_time
              /\ current_time <= Pushed[j].end_time
              /\ \E w \in WindowsOf(feed) :
                    /\ Contains(feed, w, current_time)
                    /\ IsFor(Pushed[j], feed, w, FromTime(FromOf(feed, w))[1],
                             ToTime(ToOf(feed, w))[1])
        /\ (\A w \in WindowsOf(feed) : ~Contains(feed, w, current_time)) => Pushed = <<>>
      ]_vars

\* a feed whose only pair has both times and known stops, all before or after now
C4_Witness ==
    /\ pc = "next"
    /\ positions = <<>>
    /\ \E w \in WindowsOf(feed) :
          /\ WindowsOf(feed) = {w}
          /\ FromTime(FromOf(feed, w)) # None /\ ToTime(ToOf(feed, w)) # None
          /\ FromTime(FromOf(feed, w))[1] < ToTime(ToOf(feed, w))[1]
          /\ Known(FromOf(feed, w)) /\ Known(ToOf(feed, w))
          /\ current_time > ToTime(ToOf(feed, w))[1]

(***************************************************************************)
(* C5. No pushed Position names a stop without an entry in the index, and  *)
(* its coordinates are those of the index; a pair touching an unknown stop *)
(* is dropped while the other pairs of the feed are still pushed.          *)
(***************************************************************************)
C5_UnknownStopDropped ==
    [][ProcessStep =>
        /\ \A j \in DOMAIN Pushed :
              /\ Pushed[j].from_stop.stop_id \in DOMAIN stop_locations
              /\ Pushed[j].to_stop.stop_id \in DOMAIN stop_locations
              /\ <<Pushed[j].from_stop.latitude, Pushed[j].from_stop.longitude>>
                    = stop_locations[Pushed[j].from_stop.stop_id]
              /\ <<Pushed[j].to_stop.latitude, Pushed[j].to_stop.longitude>>
                    = stop_locations[Pushed[j].to_stop.stop_id]
        /\ \A w \in WindowsOf(feed) :
              ( /\ Contains(feed, w, current_time)
                /\ Known(FromOf(feed, w)) /\ Known(ToOf(feed, w)) )
              => \E j \in DOMAIN Pushed :
                    IsFor(Pushed[j], feed, w, FromTime(FromOf(feed, w))[1],
                          ToTime(ToOf(feed, w))[1])
      ]_vars

\* pair u touches an unknown stop while now is within it; a pair of the same trip and
\* a pair of another trip were pushed
C5_Witness ==
    /\ pc = "next"
    /\ \E u \in WindowsOf(feed), v \in WindowsOf(feed), w \in WindowsOf(feed) :
          /\ Contains(feed, u, current_time)
          /\ FromOf(feed, u).stop_id # None /\ ToOf(feed, u).stop_id # None
          /\ ~Known(ToOf(feed, u))
          /\ v[1] = u[1] /\ w[1] # u[1]
          /\ \E i \in DOMAIN positions :
                IsFor(positions[i], feed, v, FromTime(FromOf(feed, v))[1],
                      ToTime(ToOf(feed, v))[1])
          /\ \E i \in DOMAIN positions :
                IsFor(positions[i], feed, w, FromTime(FromOf(feed, w))[1],
                      ToTime(ToOf(feed, w))[1])
          /\ \A i \in DOMAIN positions : positions[i].to_stop.stop_id # ToOf(feed, u).stop_id[1]

(***************************************************************************)
(* C6. Time selection with fallback: start is the from-event's departure   *)
(* time if that time is present, else its arrival time; end is the         *)
(* to-event's arrival time if present, else its departure time; a pair is  *)
(* skipped for lack of a time only when an event has neither time.         *)
(***************************************************************************)
\* the time of an optional StopTimeEvent, if it has one
TimeOf(entry) == IF entry = None THEN None ELSE entry[1].time

\* departure time if present, else arrival time
ClaimedStart(ev) == OrOpt(TimeOf(ev.departure), TimeOf(ev.arrival))

\* arrival time if present, else departure time
ClaimedEnd(ev) == OrOpt(TimeOf(ev.arrival), TimeOf(ev.departure))

C6_TimeFallback ==
    [][ProcessStep =>
        \A w \in WindowsOf(feed) :
            ( /\ ClaimedStart(FromOf(feed, w)) # None /\ ClaimedEnd(ToOf(feed, w)) # None
              /\ ClaimedStart(FromOf(feed, w))[1] < ClaimedEnd(ToOf(feed, w))[1]
              /\ ClaimedStart(FromOf(feed, w))[1] <= current_time
              /\ current_time <= ClaimedEnd(ToOf(feed, w))[1]
              /\ Known(FromOf(feed, w)) /\ Known(ToOf(feed, w)) )
            => \E j \in DOMAIN Pushed :
                  IsFor(Pushed[j], feed, w, ClaimedStart(FromOf(feed, w))[1],
                        ClaimedEnd(ToOf(feed, w))[1])
      ]_vars

(***************************************************************************)
(* C7. A trip with N stop events is examined in its N-1 consecutive pairs  *)
(* and one Position is pushed for every pair whose segment contains now    *)
(* and whose stops resolve -- all of them when several pairs of one trip   *)
(* match --, so a trip with fewer than two events pushes nothing.          *)
(***************************************************************************)
\* the pairs of a feed whose segment contains now and whose stops resolve
Matching(f, now) ==
    {w \in WindowsOf(f) : Contains(f, w, now) /\ Known(FromOf(f, w)) /\ Known(ToOf(f, w))}

C7_SlidingWindow ==
    [][ProcessStep =>
        /\ Len(Pushed) = Cardinality(Matching(feed, current_time))
        /\ \A w \in Matching(feed, current_time) :
              \E j \in DOMAIN Pushed :
                  IsFor(Pushed[j], feed, w, FromTime(FromOf(feed, w))[1],
                        ToTime(ToOf(feed, w))[1])
        /\ (\A e \in DOMAIN feed :
                feed[e].trip_update # None
                => Len(feed[e].trip_update[1].stop_time_update) < 2)
           => Pushed = <<>>
      ]_vars

\* both pairs of a trip with three stop events matched and both were pushed
C7_Witness ==
    /\ pc = "next"
    /\ \E v \in Matching(feed, current_time), w \in Matching(feed, current_time) :
          /\ v[1] = w[1] /\ v[2] + 1 = w[2]
          /\ Len(feed[v[1]].trip_update[1].stop_time_update) = 3
          /\ \E i \in DOMAIN positions, j \in DOMAIN positions :
                /\ i < j
                /\ IsFor(positions[i], feed, v, FromTime(FromOf(feed, v))[1],
                         ToTime(ToOf(feed, v))[1])
                /\ IsFor(positions[j], feed, w, FromTime(FromOf(feed, w))[1],
                         ToTime(ToOf(feed, w))[1])

(***************************************************************************)
(* Vocabulary of the properties of the tracked store.                      *)
(***************************************************************************)
\* the step in which an update task runs its batch on the store
MergeStep == task = "merge" /\ task' = "idle"

\* the trips the store tracks: an entry whose progress is below 1.0
Tracked(t) == t \in DOMAIN train_states /\ FLt(train_states[t].current_progress, F64(1))

\* the indices of the positions of the snapshot that report trip t
ReportsOf(t) == {i \in DOMAIN new_positions : new_positions[i].trip_id = t}

\* the segment of a position: its two stop ids
SegmentOf(p) == <<p.from_stop.stop_id, p.to_stop.stop_id>>

\* progress + elapsed / segment_duration, capped at 1.0
Extrapolated(state, now) ==
    FMin(FAdd(state.current_progress,
              FDiv(FSub(now, state.last_update),
                   F64(state.position.end_time - state.position.start_time))),
         F64(1))

(***************************************************************************)
(* C8. A Position whose trip_id is not yet tracked creates an entry with   *)
(* smoothed_progress equal to the Position's progress and last_observed_at *)
(* equal to the merge time.                                                *)
(***************************************************************************)
C8_NewTripProgress ==
    [][MergeStep =>
        \A i \in DOMAIN new_positions :
            (new_positions[i].trip_id \notin DOMAIN train_states
             /\ ReportsOf(new_positions[i].trip_id) = {i})
            => /\ new_positions[i].trip_id \in DOMAIN train_states'
               /\ train_states'[new_positions[i].trip_id] =
                     [position |-> new_positions[i],
                      current_progress |-> new_positions[i].progress,
                      last_update |-> fe_current_time]
      ]_vars

(***************************************************************************)
(* C9. Every update advances the smoothed_progress of every tracked trip,  *)
(* in the snapshot or not, by elapsed / segment_duration capped at 1.0 and *)
(* sets its last_observed_at to the time of the update (a trip the         *)
(* snapshot moves to another segment starts anew and is left aside).       *)
(***************************************************************************)
C9_EveryTripAdvances ==
    [][MergeStep =>
        \A t \in DOMAIN train_states :
            (Tracked(t)
             /\ \A i \in ReportsOf(t) :
                   SegmentOf(new_positions[i]) = SegmentOf(train_states[t].position))
            => /\ t \in DOMAIN train_states'
               /\ train_states'[t].current_progress
                     = Extrapolated(train_states[t], fe_current_time)
               /\ train_states'[t].last_update = fe_current_time
      ]_vars

(***************************************************************************)
(* C10. When the snapshot reports a tracked trip on a segment other than   *)
(* the tracked one, the merge replaces latest_position by the reported     *)
(* Position and sets smoothed_progress to its progress and                 *)
(* last_observed_at to the merge time (with several reports of the trip,   *)
(* by one that names the segment of the last report).                      *)
(***************************************************************************)
C10_SegmentChange ==
    [][MergeStep =>
        \A t \in DOMAIN train_states :
            (Tracked(t)
             /\ \E i \in ReportsOf(t) :
                   SegmentOf(new_positions[i]) # SegmentOf(train_states[t].position))
            => /\ t \in DOMAIN train_states'
               /\ \E k \in ReportsOf(t) :
                     /\ train_states'[t] =
                           [position |-> new_positions[k],
                            current_progress |-> new_positions[k].progress,
                            last_update |-> fe_current_time]
                     /\ \A i \in ReportsOf(t) :
                           i >= k => SegmentOf(new_positions[i]) = SegmentOf(new_positions[k])
      ]_vars

\* a merge moved a tracked trip to the segment L06N -> L08N: the entry holds the reported
\* Position, its progress 1/2 and the merge time 1.0 s (an entry created by a merge
\* starts at progress 0 and, advanced over this segment, is below 1/2 at 1.0 s)
C10_Witness ==
    /\ task = "idle"
    /\ \E t \in DOMAIN train_states :
          /\ SegmentOf(train_states[t].position) = <<"L06N", "L08N">>
          /\ train_states[t].position.progress = [num |-> 1, den |-> 2]
          /\ train_states[t].current_progress = [num |-> 1, den |-> 2]
          /\ train_states[t].last_update = F64(1)

(***************************************************************************)
(* C11. When the snapshot reports a tracked trip on its tracked segment,   *)
(* the merge leaves the entry's latest_position, smoothed_progress and     *)
(* last_observed_at as they were, whatever progress, start_time or         *)
(* end_time the re-reported Position carries.                              *)
(***************************************************************************)
C11_SameSegmentUnchanged ==
    [][MergeStep =>
        \A t \in DOMAIN train_states :
            (Tracked(t)
             /\ ReportsOf(t) # {}
             /\ \A i \in ReportsOf(t) :
                   SegmentOf(new_positions[i]) = SegmentOf(train_states[t].position))
            => /\ t \in DOMAIN train_states'
               /\ train_states'[t] = train_states[t]
      ]_vars

\* T1 still holds the Position of 0.5 s (times 0 and 2, progress 1/2) after the merge
\* of 1.0 s that created the entry of the other trip from an answer computed when only
\* the segment with times 3 and 4 contains now: that answer reported T1 too (an absent
\* trip gets last_update 1.0), on its tracked segment with other times and progress
C11_Witness ==
    /\ task = "idle"
    /\ "T1" \in DOMAIN train_states /\ "" \in DOMAIN train_states
    /\ SegmentOf(train_states["T1"].position) = <<"L06N", "L08N">>
    /\ train_states["T1"].position.start_time = 0
    /\ train_states["T1"].position.end_time = 2
    /\ train_states["T1"].position.progress = [num |-> 1, den |-> 2]
    /\ train_states["T1"].last_update = [num |-> 1, den |-> 2]
    /\ train_states[""].position.start_time = 3
    /\ train_states[""].current_progress = F64(0)
    /\ train_states[""].last_update = F64(1)

(***************************************************************************)
(* C12. A tracked trip with smoothed_progress < 1.0 that is absent from    *)
(* the merged snapshot stays in the store, its progress is extrapolated,   *)
(* and it appears in the read as long as its progress is below 1.0.        *)
(***************************************************************************)
C12_AbsentTripKept ==
    [][MergeStep =>
        \A t \in DOMAIN train_states :
            (Tracked(t) /\ ReportsOf(t) = {})
            => /\ t \in DOMAIN train_states'
               /\ train_states'[t].position = train_states[t].position
               /\ train_states'[t].current_progress
                     = Extrapolated(train_states[t], fe_current_time)
               /\ FLt(train_states'[t].current_progress, F64(1)) <=> t \in DOMAIN features'
      ]_vars

\* a trip in the store and in the read whose progress is neither 0 nor the progress of
\* its Position: a merge that did not report it advanced it
C12_Witness ==
    /\ task = "idle"
    /\ \E t \in DOMAIN train_states :
          /\ t \in DOMAIN features
          /\ FGt(train_states[t].current_progress, F64(0))
          /\ FLt(train_states[t].current_progress, F64(1))
          /\ train_states[t].current_progress # train_states[t].position.progress

(***************************************************************************)
(* C13. A trip whose smoothed_progress has reached 1.0 is absent from the  *)
(* read: the read holds a live point exactly for the trips of the store    *)
(* whose progress is below 1.0.                                            *)
(***************************************************************************)
C13_ArrivedNotInRead ==
    /\ \A t \in DOMAIN features :
          t \in DOMAIN train_states /\ FLt(train_states[t].current_progress, F64(1))
    /\ \A t \in DOMAIN train_states :
          ~FLt(train_states[t].current_progress, F64(1)) => t \notin DOMAIN features

\* a trip that was in the read and advanced to 1.0 while absent from a snapshot is
\* out of the read that still shows another trip
C13_Witness ==
    /\ task = "idle"
    /\ features # <<>>
    /\ \E t \in DOMAIN train_states :
          /\ train_states[t].current_progress = F64(1)
          /\ train_states[t].position.progress # F64(1)
          /\ t \notin DOMAIN features

(***************************************************************************)
(* C14. A trip is removed from the store the moment its smoothed_progress  *)
(* becomes >= 1.0: after every completed update of the store no entry      *)
(* with smoothed_progress >= 1.0 remains in it.                            *)
(***************************************************************************)
C14_ArrivedRemoved ==
    task = "idle" =>
        \A t \in DOMAIN train_states : FLt(train_states[t].current_progress, F64(1))

(***************************************************************************)
(* C15. Extrapolation monotonicity: an update that brings no Position for  *)
(* a tracked trip never decreases its smoothed_progress and never takes it *)
(* above 1.0.                                                              *)
(***************************************************************************)
C15_Monotonic ==
    [][MergeStep =>
        \A t \in DOMAIN train_states :
            (Tracked(t) /\ ReportsOf(t) = {})
            => /\ t \in DOMAIN train_states'
               /\ ~FLt(train_states'[t].current_progress, train_states[t].current_progress)
               /\ ~FGt(train_states'[t].current_progress, F64(1))
               /\ ~IsNaN(train_states'[t].current_progress)
      ]_vars

\* a trip reported at the start of a segment of two seconds stands at 1/2 one second
\* after its entry was created: the updates since then advanced it
C15_Witness ==
    /\ task = "idle"
    /\ \E t \in DOMAIN train_states :
          /\ train_states[t].position.progress = F64(0)
          /\ train_states[t].position.end_time - train_states[t].position.start_time = 2
          /\ train_states[t].current_progress = [num |-> 1, den |-> 2]
          /\ train_states[t].last_update = [num |-> 3, den |-> 2]

(***************************************************************************)
(* C16. Store idempotence: merging the same snapshot a second time with no *)
(* elapsed time between the two merges leaves the set of tracked trips and *)
(* the smoothed_progress of every one of them as the first merge left      *)
(* them.                                                                   *)
(***************************************************************************)
\* the trips a store tracks
LiveTrips(states) == {t \in DOMAIN states : FLt(states[t].current_progress, F64(1))}

C16_Idempotent ==
    [][MergeStep =>
        LET again == MergeSnapshot(train_states', new_positions, fe_current_time)
        IN  /\ LiveTrips(again) = LiveTrips(train_states')
            /\ \A t \in LiveTrips(train_states') :
                  again[t].current_progress = train_states'[t].current_progress
      ]_vars

(***************************************************************************)
(* C17. Every tracked trip's smoothed_progress lies in [0,1]: a snapshot   *)
(* Position whose progress is outside [0,1] or not a number is clamped     *)
(* when the store consumes it and is never stored as is.                   *)
(***************************************************************************)
C17_ProgressInRange ==
    \A t \in DOMAIN train_states :
        /\ IsFinite(train_states[t].current_progress)
        /\ ~FLt(train_states[t].current_progress, F64(0))
        /\ ~FGt(train_states[t].current_progress, F64(1))

(***************************************************************************)
(* C18. The store never holds two live entries for the same trip_id and    *)
(* the read returns at most one live point per trip_id, also after         *)
(* snapshots with several Positions of one trip_id: every entry is kept    *)
(* under the trip_id of its Position, and the read has one point for each  *)
(* trip_id of a live entry.                                                *)
(***************************************************************************)
C18_OneEntryPerTrip ==
    /\ \A t \in DOMAIN train_states : train_states[t].position.trip_id = t
    /\ \A t \in DOMAIN train_states, u \in DOMAIN train_states :
          train_states[t].position.trip_id = train_states[u].position.trip_id => t = u
    /\ Cardinality(DOMAIN features)
          = Cardinality({train_states[t].position.trip_id : t \in LiveTrips(train_states)})

\* the first update merged a snapshot with two Positions of T1 into the empty store:
\* the first created the entry at progress 0, the second moved it to another segment
\* at progress 1/2, and the store and the read hold T1 once
C18_Witness ==
    /\ task = "idle"
    /\ date_now = IntervalMs
    /\ DOMAIN train_states = {"T1"}
    /\ DOMAIN features = {"T1"}
    /\ train_states["T1"].current_progress = [num |-> 1, den |-> 2]

(***************************************************************************)
(* C19. End to end: for a feed reporting trip T1 from L06N (departure 0)   *)
(* to L08N (arrival 2) and now = 1, the snapshot holds a Position of T1    *)
(* with progress 1/2, and the live point the store produces for T1 from    *)
(* that snapshot is the midpoint of the coordinates of the two stops,      *)
(* (-73.91, 40.705) as <<longitude, latitude>>.                            *)
(***************************************************************************)
\* the Position the snapshot computation pushes in that case
MidwayPosition == BackendPosition("T1", "L", "L06N", "L08N", 0, 2, 1)

C19_EndToEnd ==
    [][(/\ MergeStep
        /\ "T1" \notin DOMAIN train_states
        /\ \E i \in DOMAIN new_positions :
              new_positions[i] = MidwayPosition /\ ReportsOf("T1") = {i})
       => /\ MidwayPosition.progress = [num |-> 1, den |-> 2]
          /\ "T1" \in DOMAIN features'
          /\ features'["T1"].coordinates = <<Frac(-7391, 100), Frac(8141, 200)>>
      ]_vars

(***************************************************************************)
(* C20. A feed source that is slow or never responds does not block the    *)
(* snapshot: every snapshot computation terminates, each fetch being       *)
(* bounded by a timeout.                                                   *)
(***************************************************************************)
C20_SnapshotTerminates == (result = "pending") ~> (result # "pending")

(***************************************************************************)
(* C21. Self-pruning store: a trip that the snapshots no longer report is  *)
(* eventually removed, provided updates keep running and time advances.    *)
(* Stated on one update: an entry at 1.0 that the snapshot does not report *)
(* is removed; a tracked one has a segment of positive duration, advances  *)
(* by elapsed / duration (capped at 1.0), strictly when time has advanced, *)
(* and is stamped with the time of the update -- so it is at 1.0 once the  *)
(* updates have covered the duration, and gone with the update after.      *)
(***************************************************************************)
C21_SelfPruning ==
    [][MergeStep =>
        \A t \in DOMAIN train_states :
            ReportsOf(t) = {} =>
                IF ~FLt(train_states[t].current_progress, F64(1))
                THEN t \notin DOMAIN train_states' /\ t \notin DOMAIN features'
                ELSE /\ train_states[t].position.end_time > train_states[t].position.start_time
                     /\ t \in DOMAIN train_states'
                     /\ train_states'[t].last_update = fe_current_time
                     /\ train_states'[t].current_progress
                           = FMin(FAdd(train_states[t].current_progress,
                                       FDiv(FSub(fe_current_time, train_states[t].last_update),
                                            F64(train_states[t].position.end_time
                                                - train_states[t].position.start_time))),
                                  F64(1))
                     /\ FGt(fe_current_time, train_states[t].last_update)
                           => FGt(train_states'[t].current_progress,
                                  train_states[t].current_progress)
      ]_vars

\* a trip that advanced to 1.0 while no snapshot reported it, in the store of an update
\* that runs its batch on a snapshot without it and prunes it
C21_Witness ==
    /\ task = "merge"
    /\ \E t \in DOMAIN train_states :
          /\ ReportsOf(t) = {}
          /\ train_states[t].current_progress = F64(1)
          /\ train_states[t].position.progress # F64(1)

(***************************************************************************)
(* Properties of the startup of the backend.                               *)
(***************************************************************************)
\* record i of the answer has a latitude or a longitude that does not parse
Unparseable(i) ==
    \/ ParseF64(station_records[i].gtfs_latitude) = None
    \/ ParseF64(station_records[i].gtfs_longitude) = None

\* the directional ids of the records
DirectionalIds ==
    UNION { {station_records[i].gtfs_stop_id \o "N", station_records[i].gtfs_stop_id \o "S"} :
            i \in DOMAIN station_records }

\* C23: when a station record has a latitude or longitude that does not parse,
\* GtfsHandler::new never returns Ok: once it has returned, it has returned the error
\* and left no index behind; and whenever it returns Ok, the index of the handler
\* holds the directional ids of every record, not a part of them.
C23_BadRecordAborts ==
    /\ (\E i \in DOMAIN station_records : Unparseable(i)) =>
           \/ pc = "new" /\ new_result = "pending" /\ stop_locations = <<>>
           \/ pc = "exit" /\ new_result = "Err" /\ stop_locations = <<>>
    /\ new_result = "Ok" => DOMAIN stop_locations = DirectionalIds

\* new has returned the error for an answer whose first record parses and whose
\* second does not
C23_Witness ==
    /\ new_result = "Err"
    /\ Len(station_records) = 2
    /\ ~Unparseable(1)
    /\ Unparseable(2)
    /\ LoadStations(station_records, <<>>) = None

\* C24: after a successful load, for every station record with stop id X the index
\* holds X+"N" and X+"S", both with the same coordinate: the parsed latitude and
\* longitude of the last record with that id; also when an id is listed twice.
C24_BothDirections ==
    (new_result = "Ok" /\ pc # "new") =>
        \A i \in DOMAIN station_records :
            LET X == station_records[i].gtfs_stop_id
                last == CHOOSE j \in DOMAIN station_records :
                            /\ station_records[j].gtfs_stop_id = X
                            /\ \A k \in DOMAIN station_records :
                                  station_records[k].gtfs_stop_id = X => k <= j
            IN  /\ (X \o "N") \in DOMAIN stop_locations
                /\ (X \o "S") \in DOMAIN stop_locations
                /\ stop_locations[X \o "N"] = stop_locations[X \o "S"]
                /\ stop_locations[X \o "N"] =
                       << ParseF64(station_records[last].gtfs_latitude)[1],
                          ParseF64(station_records[last].gtfs_longitude)[1] >>

\* a load has succeeded on an answer that lists one stop id twice, with two latitudes
C24_Witness ==
    /\ new_result = "Ok" /\ pc = "fetch"
    /\ Len(station_records) = 2
    /\ station_records[1].gtfs_stop_id = station_records[2].gtfs_stop_id
    /\ station_records[1].gtfs_latitude # station_records[2].gtfs_latitude
    /\ stop_locations[station_records[1].gtfs_stop_id \o "N"][1] =
          ParseF64(station_records[2].gtfs_latitude)[1]

(***************************************************************************)
(* Properties of the station layer.                                        *)
(***************************************************************************)
\* C25: the collection GeoJsonCollection::new returns has type FeatureCollection and
\* one feature per input station, in input order: feature i is a Feature with a Point
\* geometry, the name and the routes of station i, and the coordinates
\* [longitude, latitude] of station i.
C25_StationCollection ==
    collection # None =>
        LET c == collection[1]
        IN  /\ c.collection_type = "FeatureCollection"
            /\ Len(c.features) = Len(fetched_stations)
            /\ \A i \in 1..Len(fetched_stations) :
                  /\ c.features[i].feature_type = "Feature"
                  /\ c.features[i].geometry.geometry_type = "Point"
                  /\ c.features[i].properties.name = fetched_stations[i].stop_name
                  /\ c.features[i].properties.lines = fetched_stations[i].daytime_routes
                  /\ c.features[i].geometry.coordinates =
                        << fetched_stations[i].gtfs_longitude,
                           fetched_stations[i].gtfs_latitude >>

\* a collection was built from two stations of different name, routes and longitude
C25_Witness ==
    /\ collection # None
    /\ Len(fetched_stations) = 2
    /\ Len(collection[1].features) = 2
    /\ fetched_stations[1].stop_name # fetched_stations[2].stop_name
    /\ fetched_stations[1].daytime_routes # fetched_stations[2].daytime_routes
    /\ fetched_stations[1].gtfs_longitude # fetched_stations[2].gtfs_longitude
    /\ collection[1].features[2].properties.name = "Union Square"

(***************************************************************************)
(* Further properties of the tracked store.                                *)
(***************************************************************************)
\* C26: over an update, the smoothed progress the store holds for a trip that is
\* still in the store on the same segment afterwards does not decrease; this
\* includes the update that finds the trip at 1.0, prunes it and merges a snapshot
\* that still reports it on that segment.
C26_NeverDecreases ==
    [][MergeStep =>
        \A t \in DOMAIN train_states \cap DOMAIN train_states' :
            SegmentOf(train_states'[t].position) = SegmentOf(train_states[t].position) =>
                ~FLt(train_states'[t].current_progress, train_states[t].current_progress)
      ]_vars

(***************************************************************************)
(* Properties of the update tasks.                                         *)
(***************************************************************************)
\* the update tasks
Tasks == 1..MaxTicks

\* task r takes a step
StepOf(r) == req_pc'[r] # req_pc[r]

\* the statement task r is at after the step
StmtAfter(r) == IF req_pc'[r] \in 1..Len(Program) THEN Program[req_pc'[r]] ELSE "none"

\* C22: the batches on the tracked store exclude each other and never span an await:
\* a task that holds the guard of TRAIN_STATES is the task the executor is running,
\* never one suspended at send().await or text().await; the store and the features
\* read from it change only in a step of the task that holds the guard; while the
\* guard is held no other task takes a step; and the guard is given up only by the
\* return of its holder.
C22_MutualExclusion ==
    [][ /\ lock' # 0 => (running' = lock' /\ StmtAfter(lock') \notin Awaits)
        /\ (train_states' # train_states \/ features' # features) =>
               (lock # 0 /\ running = lock /\ StepOf(lock))
        /\ \A r \in Tasks :
              /\ (StepOf(r) /\ lock # 0) => r = lock
              /\ (lock = r /\ lock' # r) => (req_pc'[r] = Finished /\ lock' = 0)
      ]_vars

\* a task holds the guard and is about to run its batch on a store that an earlier
\* batch filled, while another task is suspended at an await
C22_Witness ==
    /\ lock # 0
    /\ running = lock
    /\ Stmt(lock) = "merge"
    /\ new_positions # <<>>
    /\ train_states # <<>>
    /\ merged # <<>>
    /\ \E q \in Tasks : q # lock /\ Stmt(q) \in Awaits

\* task r runs its batch on the store
BatchOf(r) == running = r /\ Stmt(r) = "merge" /\ req_pc'[r] = Finished

\* C27: in one batch the smoothed progress of a trip that stays on its segment grows
\* by at most (current_time of the batch - current_time of the previous batch) /
\* segment_duration.
C27_GrowthBound ==
    [][\A r \in Tasks :
         BatchOf(r) =>
            \A t \in DOMAIN train_states \cap DOMAIN train_states' :
                SegmentOf(train_states'[t].position) = SegmentOf(train_states[t].position) =>
                    ~FGt(FSub(train_states'[t].current_progress,
                              train_states[t].current_progress),
                         FDiv(FSub(fe_current_time, prev_update),
                              F64(train_states[t].position.end_time
                                  - train_states[t].position.start_time)))
      ]_vars

\* C28: the batches run in the order in which their requests were issued: the tasks
\* that merged their snapshot did so in increasing order of issue.
C28_IssueOrder ==
    \A i, j \in DOMAIN merged : i < j => merged[i] < merged[j]

(***************************************************************************)
(* Properties of the snapshot and the store together.                      *)
(***************************************************************************)
\* the entities of the decoded feed that push at least one Position
PushingEntities ==
    { i \in DOMAIN feed :
        /\ feed[i].trip_update # None
        /\ TripPositions(feed[i].trip_update[1], 1, current_time, stop_locations) # <<>> }

\* the trips those entities are about: one per trip_id, and one per entity whose
\* descriptor has no trip_id
PushingTrips ==
    Cardinality({ feed[i].trip_update[1].trip.trip_id[1] :
                    i \in {j \in PushingEntities : feed[j].trip_update[1].trip.trip_id # None} })
    + Cardinality({ i \in PushingEntities : feed[i].trip_update[1].trip.trip_id = None })

\* C29: the trips of one feed message that are reported in the snapshot get one store
\* entry and one live point each when the frontend merges their Positions into an
\* empty store, trips whose descriptor has no trip_id included.
C29_SeparateEntries ==
    pc = "process" =>
        LET pushed == FeedPositions(feed, current_time, stop_locations)
            after == MergeSnapshot(<<>>, pushed, F64(current_time))
        IN  /\ Cardinality(DOMAIN after) = PushingTrips
            /\ Cardinality(DOMAIN Features(after)) = PushingTrips

(***************************************************************************)
(* Failed updates.                                                         *)
(***************************************************************************)
\* a body that is not the JSON of a list of positions: a progress that is no number
Garbled(text) == \E i \in DOMAIN text : ~IsFinite(text[i].progress)

\* the request of task r got no body, or a body that does not deserialize
NoSnapshot(r) == req_text[r] = None \/ Garbled(req_text[r][1])

\* C30: a task whose request fails or whose body does not parse returns an error and
\* leaves the store as it was: the step in which a task returns Err changes neither
\* the store nor the features; every step that changes them is taken by a task that
\* has a body that parses; and a task without such a body never returns Ok.
C30_FailureLeavesStore ==
    [][\A r \in Tasks :
         /\ (req_result[r] = "pending" /\ req_result'[r] = "Err") =>
                (train_states' = train_states /\ features' = features)
         /\ ((train_states' # train_states \/ features' # features) /\ StepOf(r)) =>
                ~NoSnapshot(r)
         /\ (StepOf(r) /\ req_pc'[r] = Finished /\ NoSnapshot(r)) =>
                (req_result'[r] = "Err" /\ train_states' = train_states)
      ]_vars

\* with entries in the store, one task has returned Err because its request failed
\* and another because its body did not parse
C30_Witness ==
    /\ train_states # <<>>
    /\ \E r, q \in Tasks :
          /\ req_result[r] = "Err" /\ req_text[r] = None
          /\ req_result[q] = "Err" /\ req_text[q] # None /\ Garbled(req_text[q][1])

====
